---- MODULE Spec2Model ----
(***************************************************************************)
(* Model of src/dfa/dfa.py: the DFA value (start, memoized _label and      *)
(* _transition, inputs, outputs, cached _states and _hash), its word       *)
(* simulation, reachability and accepting-word search, boolean             *)
(* combinators, and the bit-packed integer codec.                          *)
(*                                                                         *)
(* Conventions.                                                            *)
(*  - Python True/False are the integers 1/0 (bool is an int subclass and  *)
(*    True == 1); 2 stands for a label value that is not Boolean.          *)
(*  - None is the empty tuple <<>>, Some(v) is <<v>>.                      *)
(*  - A bitarray is a sequence of 0/1, most significant bit first.  The    *)
(*    integer returned by to_int is kept as its binary digits (ba2int and  *)
(*    int2ba without a length are inverse bijections between positive      *)
(*    integers and bit strings starting with 1); the encodings exceed 32   *)
(*    bits.                                                                *)
(*  - A DFA object is a record; its two functions are either tables        *)
(*    (kind "base") or the closures the code builds (kinds "inv", "prod",  *)
(*    "decoded", "const"), evaluated by LabelFn and TransitionFn.          *)
(***************************************************************************)
EXTENDS Integers, Sequences, FiniteSets, TLC

VARIABLES
    A,        \* a directly constructed automaton (left operand)
    B,        \* a second directly constructed automaton (right operand)
    X,        \* None or the automaton returned by the last combinator/from_int
    last,     \* the last call: [op, err, ret], err = "none" when it returned
    tcache,   \* keys memoized by A._transition (fn.memoize)
    lcache,   \* keys memoized by A._label (fn.memoize)
    ntrav,    \* number of times the traversal loop of A.states() has run
    co        \* the generator object returned by A.run(...)

vars == <<A, B, X, last, tcache, lcache, ntrav, co>>

---------------------------------------------------------------------------
(* Bounds of the model. *)

\* States of a directly constructed automaton are 0..n-1 with n <= MaxStates.
MaxStates == 3
\* Longest word quantified over when two automata are compared.
MaxWordLen == 3
\* SpecSim: states of the automaton, and longest word passed to a primitive.
SimStates == 2
SimWordLen == 2
\* Spec: states of each operand of a combinator.
AlgStates == 2

\* The symbols words are written with; an automaton's inputs is a subset.
Letters == {0, 1, 2}
\* The alphabets automata are declared with.
InputSets == {{1}, {0, 2}}

None == <<>>
Some(v) == <<v>>

---------------------------------------------------------------------------
(* Generic helpers. *)

Min(S) == CHOOSE x \in S : \A y \in S : x <= y

RECURSIVE sorted(_)
\* sorted(self.inputs) for a set of integers: ascending list.
sorted(S) == IF S = {} THEN <<>> ELSE <<Min(S)>> \o sorted(S \ {Min(S)})

\* Words over an alphabet of length at most n.
RECURSIVE WordsUpTo(_, _)
WordsUpTo(S, n) ==
    IF n = 0 THEN {<<>>}
    ELSE LET W == WordsUpTo(S, n - 1)
         IN W \cup {Append(w, c) : w \in {v \in W : Len(v) = n - 1}, c \in S}

---------------------------------------------------------------------------
(* The two functions of a DFA object. *)

\* operator.and_, operator.or_, operator.xor on Python ints below 4 (bitwise).
BitAnd(a, b) == ((a % 2) * (b % 2)) + 2 * ((a \div 2) * (b \div 2))
BitXor(a, b) == ((a + b) % 2) + 2 * (((a \div 2) + (b \div 2)) % 2)
BitOr(a, b) == BitAnd(a, b) + BitXor(a, b)
ApplyOp(op, a, b) ==
    CASE op = "and" -> BitAnd(a, b)
      [] op = "or" -> BitOr(a, b)
      [] op = "xor" -> BitXor(a, b)

\* Python's `not v`.
PyNot(v) == IF v = 0 THEN 1 ELSE 0

\* The object a closure captured: operands are held by reference.
Obj(name) == IF name = "A" THEN A ELSE B

RECURSIVE LabelFn(_, _)
\* d._label(s)
LabelFn(d, s) ==
    CASE d.kind = "base" -> d.label[s]
      [] d.kind = "inv" -> PyNot(LabelFn(Obj(d.of), s))
      [] d.kind = "prod" ->
            ApplyOp(d.op, LabelFn(Obj(d.left), s[1]), LabelFn(Obj(d.right), s[2]))
      [] d.kind = "decoded" ->
            BitXor(IF s \in d.accepting THEN 1 ELSE 0, d.specify_rejecting)
      [] d.kind = "const" -> d.specify_rejecting

RECURSIVE TransitionFn(_, _, _)
\* d._transition(s, c)
TransitionFn(d, s, c) ==
    CASE d.kind = "base" -> d.transition[s, c]
      [] d.kind = "inv" -> TransitionFn(Obj(d.of), s, c)
      [] d.kind = "prod" ->
            <<TransitionFn(Obj(d.left), s[1], c), TransitionFn(Obj(d.right), s[2], c)>>
      [] d.kind = "decoded" ->
            IF <<s, c>> \in DOMAIN d.transitions THEN d.transitions[<<s, c>>] ELSE s
      [] d.kind = "const" -> d.specify_rejecting

\* boolean_only's test: self.outputs <= {True, False}
IsBoolean(d) == d.outputs \subseteq {0, 1}

---------------------------------------------------------------------------
(* states(): iterative depth-first traversal. *)

RECURSIVE StatesLoopBreak(_, _, _, _)
\* Mutant of StatesLoop: `break` in place of `continue` on a visited state.
StatesLoopBreak(d, stack, visited, order) ==
    IF stack = <<>> THEN order
    ELSE LET curr == stack[Len(stack)]
             rest == SubSeq(stack, 1, Len(stack) - 1)
             ins == sorted(d.inputs)
             successors == [i \in 1..Len(ins) |-> TransitionFn(d, curr, ins[i])]
         IN IF curr \in visited
            THEN order
            ELSE StatesLoopBreak(d, rest \o successors, visited \cup {curr},
                                 Append(order, curr))

RECURSIVE StatesLoop(_, _, _, _)
\* The while loop of states(): stack is a list whose last element is popped.
StatesLoop(d, stack, visited, order) ==
    IF stack = <<>> THEN order
    ELSE LET curr == stack[Len(stack)]
             rest == SubSeq(stack, 1, Len(stack) - 1)
             ins == sorted(d.inputs)
             successors == [i \in 1..Len(ins) |-> TransitionFn(d, curr, ins[i])]
         IN IF curr \in visited
            THEN StatesLoop(d, rest, visited, order)
            ELSE StatesLoop(d, rest \o successors, visited \cup {curr},
                            Append(order, curr))

\* The tuple stored in self._states by a traversal.
StatesOrder(d) == StatesLoop(d, <<d.start>>, {}, <<>>)

\* frozenset(self._states)
FrozenSet(t) == {t[i] : i \in 1..Len(t)}

---------------------------------------------------------------------------
(* find_accepting_word(): recursive depth-first search. *)

Pop(word) == SubSeq(word, 1, Len(word) - 1)

RECURSIVE FindRec(_, _, _, _)
RECURSIVE FindLoop(_, _, _, _, _)
\* _find_accepting_word_recursive(state) with the closure's visited and word.
FindRec(d, state, visited, word) ==
    IF LabelFn(d, state) # 0
    THEN [found |-> TRUE, visited |-> visited, word |-> word]
    ELSE FindLoop(d, state, 1, visited \cup {state}, word)

\* Mutant of FindLoop: the symbols are tried in descending order.
FindLoopDescending(d, state, i, visited, word) ==
    LET ins == sorted(d.inputs)
        n == Len(ins)
    IN IF i > n
       THEN [found |-> FALSE, visited |-> visited, word |-> word]
       ELSE LET next_state == TransitionFn(d, state, ins[n + 1 - i])
            IN IF next_state \notin visited
               THEN LET r == FindRec(d, next_state, visited,
                                     Append(word, ins[n + 1 - i]))
                    IN IF r.found THEN r
                       ELSE FindLoop(d, state, i + 1, r.visited, Pop(r.word))
               ELSE FindLoop(d, state, i + 1, visited, word)

\* Mutant of FindLoop: word.pop() is missing after a failed branch.
FindLoopNoPop(d, state, i, visited, word) ==
    LET ins == sorted(d.inputs)
    IN IF i > Len(ins)
       THEN [found |-> FALSE, visited |-> visited, word |-> word]
       ELSE LET next_state == TransitionFn(d, state, ins[i])
            IN IF next_state \notin visited
               THEN LET r == FindRec(d, next_state, visited, Append(word, ins[i]))
                    IN IF r.found THEN r
                       ELSE FindLoop(d, state, i + 1, r.visited, r.word)
               ELSE FindLoop(d, state, i + 1, visited, word)

\* The for loop over inputs, at the i-th symbol.
FindLoop(d, state, i, visited, word) ==
    LET ins == sorted(d.inputs)
    IN IF i > Len(ins)
       THEN [found |-> FALSE, visited |-> visited, word |-> word]
       ELSE LET next_state == TransitionFn(d, state, ins[i])
            IN IF next_state \notin visited
               THEN LET r == FindRec(d, next_state, visited, Append(word, ins[i]))
                    IN IF r.found THEN r
                       ELSE FindLoop(d, state, i + 1, r.visited, Pop(r.word))
               ELSE FindLoop(d, state, i + 1, visited, word)

---------------------------------------------------------------------------
(* Directly constructed automata: DFA(start, label, transition, inputs,    *)
(* outputs) with _states and _hash left at their default None.             *)

DFA(start, label, transition, inputs, outputs) ==
    [kind |-> "base", start |-> start, label |-> label, transition |-> transition,
     inputs |-> inputs, outputs |-> outputs, _states |-> None, _hash |-> None]

\* The k-th target (k = 1..n*m) of a table read row by row, symbols ascending.
Target(t, ins, k) ==
    LET m == Len(ins) IN t[(k - 1) \div m, ins[((k - 1) % m) + 1]]

\* Tables over states 0..n-1 in which every state is reachable from 0 and the
\* states are numbered in order of first appearance in the row-by-row reading:
\* one representative of each renaming class of such tables.
Canonical(t, n, S) ==
    LET ins == sorted(S)
        m == Len(ins)
        seen(k) == {0} \cup {Target(t, ins, j) : j \in 1..(k - 1)}
    IN /\ \A k \in 1..(n * m) : \E q \in seen(k) : Target(t, ins, k) <= q + 1
       /\ \A i \in 1..(n - 1) : \E k \in 1..(i * m) : Target(t, ins, k) = i

Tables(n, S) == {t \in [(0..(n - 1)) \X S -> 0..(n - 1)] : Canonical(t, n, S)}

\* An automaton no action of a specification uses.
Idle == DFA(0, [s \in {0} |-> 0], [p \in {0} \X {1} |-> 0], {1}, {0, 1})

NoCall == [op |-> "init", err |-> "none", ret |-> None]
NoRun == [state |-> "absent"]

---------------------------------------------------------------------------
(* states() and find_accepting_word() on a directly constructed A.         *)

\* Keys A._transition is called with by a traversal of states().
StatesKeys(d, order) == FrozenSet(order) \X d.inputs

\* states(); hit records that the call was served from self._states.
states ==
    LET fresh == A._states = None
        order == IF fresh THEN StatesOrder(A) ELSE A._states[1]
    IN /\ A' = [A EXCEPT !._states = Some(order)]
       /\ ntrav' = IF fresh THEN ntrav + 1 ELSE ntrav
       /\ tcache' = IF fresh THEN tcache \cup StatesKeys(A, order) ELSE tcache
       /\ last' = [op |-> "states", err |-> "none", ret |-> FrozenSet(order),
                   hit |-> ~fresh]
       /\ UNCHANGED <<B, X, lcache, co>>

RECURSIVE TraceFn(_, _, _)
\* The states d visits on a word from state s, ignoring the alphabet check.
TraceFn(d, s, w) ==
    IF w = <<>> THEN <<s>>
    ELSE <<s>> \o TraceFn(d, TransitionFn(d, s, Head(w)), Tail(w))

\* Keys the search calls _transition with: every symbol at a state it gave up
\* on, the symbols up to the one taken at a state of the returned path.
FindKeys(d, r) ==
    LET path == TraceFn(d, d.start, r.word)
        onPath == IF r.found THEN {path[i] : i \in 1..Len(r.word)} ELSE {}
    IN ((r.visited \ onPath) \X d.inputs)
       \cup UNION {{<<path[i], c>> : c \in {x \in d.inputs : x <= r.word[i]}} :
                     i \in 1..Len(r.word)}

\* find_accepting_word(), wrapped by boolean_only.
find_accepting_word ==
    IF ~IsBoolean(A)
    THEN /\ last' = [op |-> "find", err |-> "ValueError", ret |-> None]
         /\ UNCHANGED <<A, B, X, tcache, lcache, ntrav, co>>
    ELSE LET r == FindRec(A, A.start, {}, <<>>)
             path == TraceFn(A, A.start, r.word)
         IN /\ last' = [op |-> "find", err |-> "none",
                        ret |-> IF r.found THEN Some(r.word) ELSE None]
            /\ tcache' = tcache \cup FindKeys(A, r)
            /\ lcache' = lcache \cup r.visited
                             \cup (IF r.found THEN {path[Len(path)]} ELSE {})
            /\ UNCHANGED <<A, B, X, ntrav, co>>

\* The variables other than A start like this in every specification.
InitRest ==
    /\ X = None
    /\ last = NoCall
    /\ tcache = {}
    /\ lcache = {}
    /\ ntrav = 0
    /\ co = NoRun

\* SpecStates: automata over a declared alphabet from every start state, so
\* that some states are unreachable (labels play no part in states()).
InitStates ==
    /\ \E n \in 1..MaxStates, S \in InputSets :
         \E t \in Tables(n, S), s \in 0..(n - 1) :
            A = DFA(s, [q \in 0..(n - 1) |-> 0], t, S, {0, 1})
    /\ B = Idle
    /\ InitRest

NextStates == states

SpecStates == InitStates /\ [][NextStates]_vars

\* SpecFind: Boolean automata with every labelling, started at the first or
\* at the last state (from the last one some states may be unreachable).
InitFind ==
    /\ \E n \in 1..MaxStates, S \in InputSets :
         \E t \in Tables(n, S), l \in [0..(n - 1) -> {0, 1}], s \in {0, n - 1} :
            A = DFA(s, l, t, S, {0, 1})
    /\ B = Idle
    /\ InitRest

NextFind == find_accepting_word

SpecFind == InitFind /\ [][NextFind]_vars

---------------------------------------------------------------------------
(* Word simulation: trace, transition, label, transduce.                   *)

RECURSIVE TraceStep(_, _, _, _, _)
\* The for loop of trace(), consumed to its end or to the failing assert:
\* yielded are the states produced so far, keys the _transition calls made.
TraceStep(d, state, w, yielded, keys) ==
    IF w = <<>>
    THEN [err |-> "none", yielded |-> yielded, keys |-> keys]
    ELSE IF Head(w) \notin d.inputs
    THEN [err |-> "AssertionError", yielded |-> yielded, keys |-> keys]
    ELSE LET nxt == TransitionFn(d, state, Head(w))
         IN TraceStep(d, nxt, Tail(w), Append(yielded, nxt),
                      keys \cup {<<state, Head(w)>>})

\* Mutant of trace: the whole word is validated before the first transition.
traceValidateFirst(d, word, start) ==
    LET s0 == IF start = None THEN d.start ELSE start[1]
    IN IF \E i \in 1..Len(word) : word[i] \notin d.inputs
       THEN [err |-> "AssertionError", yielded |-> <<>>, keys |-> {}]
       ELSE TraceStep(d, s0, word, <<s0>>, {})

\* trace(word, start=start), run by a consumer that exhausts it.
trace(d, word, start) ==
    LET s0 == IF start = None THEN d.start ELSE start[1]
    IN TraceStep(d, s0, word, <<s0>>, {})

\* transition(word, start=start): fn.last of the trace.
transition(d, word, start) ==
    LET t == trace(d, word, start)
    IN [err |-> t.err,
        ret |-> IF t.err = "none" THEN Some(t.yielded[Len(t.yielded)]) ELSE None,
        tkeys |-> t.keys, lkeys |-> {}]

\* label(word, start=start): _label of the last state, asserted in outputs.
label(d, word, start) ==
    LET t == transition(d, word, start)
    IN IF t.err # "none" THEN t
       ELSE LET output == LabelFn(d, t.ret[1])
            IN [err |-> IF output \in d.outputs THEN "none" ELSE "AssertionError",
                ret |-> IF output \in d.outputs THEN Some(output) ELSE None,
                tkeys |-> t.tkeys, lkeys |-> {t.ret[1]}]

\* transduce(word, start=start): map(_label, trace) pulls one state at a
\* time, so every state yielded before a failure has been labelled.
transduce(d, word, start) ==
    LET t == trace(d, word, start)
        labels == [i \in 1..Len(t.yielded) |-> LabelFn(d, t.yielded[i])]
    IN [err |-> t.err,
        ret |-> IF t.err = "none" THEN Some(Pop(labels)) ELSE None,
        tkeys |-> t.keys, lkeys |-> FrozenSet(t.yielded)]

\* A call of one of the three primitives on A; the memo tables of A keep
\* what the call computed, whether it returned or raised.
SimCall(op, word, start) ==
    LET r == CASE op = "transition" -> transition(A, word, start)
               [] op = "label" -> label(A, word, start)
               [] op = "transduce" -> transduce(A, word, start)
    IN /\ last.op = "init"
       /\ last' = [op |-> op, word |-> word, start |-> start,
                   err |-> r.err, ret |-> r.ret]
       /\ tcache' = tcache \cup r.tkeys
       /\ lcache' = lcache \cup r.lkeys
       /\ UNCHANGED <<A, B, X, ntrav, co>>

SimWords == WordsUpTo(Letters, SimWordLen)
SimStarts(d) == {None, Some(Cardinality(DOMAIN d.label) - 1)}

transition_of == \E w \in SimWords, st \in SimStarts(A) : SimCall("transition", w, st)
label_of == \E w \in SimWords, st \in SimStarts(A) : SimCall("label", w, st)
transduce_of == \E w \in SimWords, st \in SimStarts(A) : SimCall("transduce", w, st)

\* SpecSim: one call of a primitive on an automaton whose memo tables are
\* empty, or were filled by an earlier states() or by an earlier successful
\* transduce(u).
InitSim ==
    /\ \E n \in 1..SimStates, S \in InputSets :
         \E t \in Tables(n, S) :
            LET d == DFA(0, [q \in 0..(n - 1) |-> q % 2], t, S, {0, 1})
            IN \/ /\ A = d
                  /\ tcache = {}
                  /\ lcache = {}
                  /\ ntrav = 0
               \/ /\ A = [d EXCEPT !._states = Some(StatesOrder(d))]
                  /\ tcache = StatesKeys(d, StatesOrder(d))
                  /\ lcache = {}
                  /\ ntrav = 1
               \/ \E u \in WordsUpTo(S, SimWordLen - 1) :
                     /\ A = d
                     /\ tcache = transduce(d, u, None).tkeys
                     /\ lcache = transduce(d, u, None).lkeys
                     /\ ntrav = 0
    /\ B = Idle
    /\ X = None
    /\ last = NoCall
    /\ co = NoRun

NextSim == transition_of \/ label_of \/ transduce_of

SpecSim == InitSim /\ [][NextSim]_vars

---------------------------------------------------------------------------
(* Properties of the simulation primitives.                                *)

SimOps == {"transition", "label", "transduce"}

HasInvalid(d, w) == \E i \in 1..Len(w) : w[i] \notin d.inputs

\* The symbols of w before its first symbol outside d.inputs.
ValidPrefix(d, w) ==
    LET k == Min({i \in 1..Len(w) : w[i] \notin d.inputs})
    IN SubSeq(w, 1, k - 1)

\* The run of d on the valid prefix of call c's word, from c's start state.
PrefixPath(d, c) ==
    TraceFn(d, IF c.start = None THEN d.start ELSE c.start[1], ValidPrefix(d, c.word))

\* C7 as stated: a call with a symbol outside inputs fails with the
\* alphabet violation and leaves both memo tables exactly as they were.
CE_C7_CachesUntouched ==
    [][(last'.op \in SimOps /\ HasInvalid(A, last'.word)) =>
          /\ last'.err = "AssertionError"
          /\ tcache' = tcache
          /\ lcache' = lcache]_vars

\* C7 amended: such a call fails with the alphabet violation and removes no
\* cache entry; the transition table gains exactly the transitions taken on
\* the valid symbols before the first invalid one, and the label table gains
\* exactly the states visited on that prefix when the call is transduce and
\* nothing otherwise.
Thm_C7_CachesKeepValidPrefix ==
    [][(last'.op \in SimOps /\ HasInvalid(A, last'.word)) =>
          LET prefix == ValidPrefix(A, last'.word)
              path == PrefixPath(A, last')
          IN /\ last'.err = "AssertionError"
             /\ last'.ret = None
             /\ tcache' = tcache \cup {<<path[i], prefix[i]>> : i \in 1..Len(prefix)}
             /\ lcache' = lcache \cup (IF last'.op = "transduce"
                                        THEN FrozenSet(path) ELSE {})]_vars

\* A failed call whose word starts with a valid symbol, on an automaton whose
\* tables held other entries before: the prefix transition is now cached.
Wit_C7_FailedAfterValidSymbol ==
    /\ last.op \in SimOps /\ last.err = "AssertionError"
    /\ Len(last.word) = 2
    /\ last.word[1] \in A.inputs /\ last.word[2] \notin A.inputs
    /\ last.start # None
    /\ <<last.start[1], last.word[1]>> \in tcache
    /\ <<A.start, last.word[1]>> \notin tcache
    /\ A._states = None /\ tcache # {<<last.start[1], last.word[1]>>}

---------------------------------------------------------------------------
(* Collaborators from dfa.utils, modelled from their contracts.            *)

RECURSIVE Closure(_, _)
\* Least set containing S and closed under d's transitions on d.inputs.
Closure(d, S) ==
    LET T == S \cup {TransitionFn(d, s, c) : s \in S, c \in d.inputs}
    IN IF T = S THEN S ELSE Closure(d, T)

\* The states reachable from start by some word over inputs.
Reachable(d) == Closure(d, {d.start})

RECURSIVE Refine(_, _)
\* Coarsest refinement of the relation E that d's transitions respect.
Refine(d, E) ==
    LET F == {p \in E : \A c \in d.inputs :
                 <<TransitionFn(d, p[1], c), TransitionFn(d, p[2], c)>> \in E}
    IN IF F = E THEN E ELSE Refine(d, F)

\* minimize(d): language-equivalent, with the fewest states: the reachable
\* states of d merged when no word over inputs tells them apart.
minimize(d) ==
    LET R == Reachable(d)
        E == Refine(d, {p \in R \X R : LabelFn(d, p[1]) = LabelFn(d, p[2])})
        Class(s) == {t \in R : <<s, t>> \in E}
        Classes == {Class(s) : s \in R}
        Rep(C) == CHOOSE s \in C : TRUE
    IN [kind |-> "base", start |-> Class(d.start),
        label |-> [C \in Classes |-> LabelFn(d, Rep(C))],
        transition |-> [q \in Classes \X d.inputs |->
                          Class(TransitionFn(d, Rep(q[1]), q[2]))],
        inputs |-> d.inputs, outputs |-> d.outputs,
        _states |-> None, _hash |-> None]

\* dfa2dict(d, reindex=True): the reachable states renumbered 0..n-1 in the
\* order d.states() discovers them (start is 0, the state from_int starts
\* in), each with its label and its successor per symbol.
dfa2dict(d) ==
    LET order == StatesOrder(d)
        n == Len(order)
        Index(s) == CHOOSE i \in 0..(n - 1) : order[i + 1] = s
    IN [n |-> n,
        label |-> [i \in 0..(n - 1) |-> LabelFn(d, order[i + 1])],
        transition |-> [q \in (0..(n - 1)) \X d.inputs |->
                          Index(TransitionFn(d, order[q[1] + 1], q[2]))]]

---------------------------------------------------------------------------
(* bitarray.util, by its documented behaviour.                             *)

RECURSIVE Pow2(_)
Pow2(k) == IF k <= 0 THEN 1 ELSE 2 * Pow2(k - 1)

RECURSIVE BitLength(_)
\* len(bin(k)) - 2 for k >= 1
BitLength(k) == IF k = 0 THEN 0 ELSE 1 + BitLength(k \div 2)

\* bits_needed(n)
bits_needed(n) == IF n < 2 THEN 0 ELSE BitLength(n - 1)

\* int2ba(i, length): ValueError unless length > 0, OverflowError unless
\* 0 <= i < 2^length, else the length-bit big-endian digits of i.
int2ba(i, length) ==
    IF length <= 0 THEN [err |-> "ValueError", bits |-> <<>>]
    ELSE IF i < 0 \/ i >= Pow2(length) THEN [err |-> "OverflowError", bits |-> <<>>]
    ELSE [err |-> "none",
          bits |-> [k \in 1..length |-> (i \div Pow2(length - k)) % 2]]

RECURSIVE ba2int(_)
\* ba2int(b) for a non-empty b (it raises ValueError on an empty one).
ba2int(b) == IF Len(b) = 0 THEN 0 ELSE 2 * ba2int(Pop(b)) + b[Len(b)]

\* Python slices b[:k] and b[k:] for k >= 0.
Take(b, k) == SubSeq(b, 1, IF k < Len(b) THEN k ELSE Len(b))
Drop(b, k) == SubSeq(b, (IF k < Len(b) THEN k ELSE Len(b)) + 1, Len(b))

\* b.find(0): 0-based position of the first 0 bit, -1 if there is none.
Find0(b) ==
    IF \E i \in 1..Len(b) : b[i] = 0
    THEN Min({i \in 1..Len(b) : b[i] = 0}) - 1
    ELSE -1

---------------------------------------------------------------------------
(* to_int: the canonical encoding.                                         *)

\* One step of building the encoding: append(bit), extend(int2ba(v, w)), or
\* the same under `if state_bits:`.
Bit(b) == [kind |-> "bit", v |-> b, w |-> 1]
Ext(v, w) == [kind |-> "ext", v |-> v, w |-> w]
ExtIf(cond, v, w) == [kind |-> IF cond THEN "ext" ELSE "skip", v |-> v, w |-> w]

RECURSIVE Build(_, _)
\* Runs the steps in order on the encoding so far; the first int2ba that
\* raises ends the call.
Build(steps, encoding) ==
    IF steps = <<>> THEN [err |-> "none", bits |-> encoding]
    ELSE LET st == Head(steps)
         IN CASE st.kind = "bit" -> Build(Tail(steps), Append(encoding, st.v))
              [] st.kind = "skip" -> Build(Tail(steps), encoding)
              [] st.kind = "ext" ->
                    LET r == int2ba(st.v, st.w)
                    IN IF r.err # "none" THEN [err |-> r.err, bits |-> <<>>]
                       ELSE Build(Tail(steps), encoding \o r.bits)

RECURSIVE Concat(_)
Concat(seqs) == IF seqs = <<>> THEN <<>> ELSE Head(seqs) \o Concat(Tail(seqs))

\* The bits to_int writes for the reindexed dictionary of the minimized
\* automaton; n_inputs is len(self.inputs).
EncodeDict(graph, n_inputs, input_order) ==
    LET n == graph.n
        accepting == {q \in 0..(n - 1) : graph.label[q] # 0}
        state_bits == bits_needed(n)
        input_bits == bits_needed(Len(input_order))
        specify_rejecting == Cardinality(accepting) * 2 >= n + 1
        indicies == IF specify_rejecting THEN (0..(n - 1)) \ accepting ELSE accepting
        idxs == sorted(indicies)
        header ==
            << Bit(1),
               ExtIf(state_bits # 0, Pow2(state_bits) - 1, state_bits),
               Bit(0),
               ExtIf(state_bits # 0, n - 1, state_bits),
               Ext(Pow2(input_bits) - 1, input_bits),
               Bit(0),
               Ext(n_inputs - 1, input_bits),
               Bit(IF specify_rejecting THEN 1 ELSE 0),
               ExtIf(state_bits # 0, Cardinality(indicies) - 1, state_bits) >>
        members == [k \in 1..Len(idxs) |-> Ext(idxs[k], state_bits)]
        Triple(start, i) ==
            LET end == graph.transition[start, input_order[i]]
            IN IF start = end THEN <<>>
               ELSE <<Ext(start, state_bits), Ext(i - 1, input_bits),
                      Ext(end, state_bits)>>
        Row(start) == Concat([i \in 1..Len(input_order) |-> Triple(start, i)])
        triples == Concat([q \in 1..n |-> Row(q - 1)])
    IN Build(header \o members \o triples, <<>>)

\* The body of to_int below the input_order check.
Encode(d, input_order) ==
    EncodeDict(dfa2dict(minimize(d)), Cardinality(d.inputs), input_order)

\* to_int(input_order), wrapped by boolean_only; the integer is returned as
\* its binary digits.
to_int(d, input_order) ==
    LET order == IF input_order = None THEN sorted(d.inputs) ELSE input_order[1]
        strict == FrozenSet(order) \subseteq d.inputs /\ FrozenSet(order) # d.inputs
        missing == input_order # None /\ ~strict
    IN IF ~IsBoolean(d) \/ missing
       THEN [err |-> "ValueError", bits |-> <<>>]
       ELSE Encode(d, order)

---------------------------------------------------------------------------
(* from_int: the decoder.                                                  *)

Raise(e) == [err |-> e, dfa |-> None]

RECURSIVE ReadSet(_, _, _, _)
\* The loop reading n_accepting indices of state_bits bits each.
ReadSet(encoding, state_bits, count, accepting) ==
    IF count = 0 THEN [err |-> "none", accepting |-> accepting, rest |-> encoding]
    ELSE IF Len(Take(encoding, state_bits)) = 0
    THEN [err |-> "ValueError", accepting |-> accepting, rest |-> encoding]
    ELSE ReadSet(Drop(encoding, state_bits), state_bits, count - 1,
                 accepting \cup {ba2int(Take(encoding, state_bits))})

RECURSIVE ReadTransitions(_, _, _, _, _)
\* The while loop reading (start, sym, end) triples until no bit is left;
\* a later triple for the same (start, sym) overwrites an earlier one.
ReadTransitions(encoding, state_bits, input_bits, inputs, transitions) ==
    IF Len(encoding) = 0 THEN [err |-> "none", transitions |-> transitions]
    ELSE LET e1 == Drop(encoding, state_bits)
             e2 == Drop(e1, input_bits)
             e3 == Drop(e2, state_bits)
             sym == ba2int(Take(e1, input_bits))
         IN IF Len(Take(encoding, state_bits)) = 0 \/ Len(Take(e1, input_bits)) = 0
               \/ Len(Take(e2, state_bits)) = 0
            THEN [err |-> "ValueError", transitions |-> transitions]
            ELSE IF sym >= Len(inputs)
            THEN [err |-> "IndexError", transitions |-> transitions]
            ELSE LET key == <<ba2int(Take(encoding, state_bits)), inputs[sym + 1]>>
                     end == ba2int(Take(e2, state_bits))
                 IN ReadTransitions(e3, state_bits, input_bits, inputs,
                        [k \in DOMAIN transitions \cup {key} |->
                            IF k = key THEN end ELSE transitions[k]])

\* from_int(encoding, inputs) for the digits of an integer whose two width
\* headers are terminated by a 0 bit, as in every integer to_int returns.
from_int(digits, inputs_arg) ==
    LET enc0 == Tail(digits)
        state_bits == Find0(enc0)
        enc1 == Drop(enc0, state_bits + 1)
        n_states == IF state_bits > 0 THEN ba2int(Take(enc1, state_bits)) + 1 ELSE 1
        enc2 == IF state_bits > 0 THEN Drop(enc1, state_bits) ELSE enc1
        input_bits == Find0(enc2)
        enc3 == Drop(enc2, input_bits + 1)
        n_inputs == ba2int(Take(enc3, input_bits)) + 1
        inputs == IF inputs_arg = None THEN [k \in 1..n_inputs |-> k - 1]
                  ELSE inputs_arg[1]
        enc4 == Drop(enc3, input_bits)
        specify_rejecting == enc4[1]
        enc5 == Tail(enc4)
        n_accepting == ba2int(Take(enc5, state_bits)) + 1
        set == ReadSet(Drop(enc5, state_bits), state_bits, n_accepting, {})
        tr == ReadTransitions(set.rest, state_bits, input_bits, inputs, <<>>)
    IN IF state_bits < 0 \/ input_bits < 0 THEN Raise("ValueError")
       ELSE IF state_bits > 0 /\ Len(Take(enc1, state_bits)) = 0 THEN Raise("ValueError")
       ELSE IF Len(Take(enc3, input_bits)) = 0 THEN Raise("ValueError")
       ELSE IF Len(inputs) # n_inputs THEN Raise("AssertionError")
       ELSE IF Len(enc4) = 0 THEN Raise("IndexError")
       ELSE IF Len(enc5) = 0
       THEN IF n_states # 1 THEN Raise("AssertionError")
            ELSE [err |-> "none",
                  dfa |-> Some([kind |-> "const", start |-> specify_rejecting,
                                specify_rejecting |-> specify_rejecting,
                                inputs |-> FrozenSet(inputs), outputs |-> {0, 1},
                                _states |-> None, _hash |-> None])]
       ELSE IF Len(Take(enc5, state_bits)) = 0 THEN Raise("ValueError")
       ELSE IF set.err # "none" THEN Raise(set.err)
       ELSE IF tr.err # "none" THEN Raise(tr.err)
       ELSE [err |-> "none",
             dfa |-> Some([kind |-> "decoded", start |-> 0,
                           accepting |-> set.accepting,
                           specify_rejecting |-> specify_rejecting,
                           transitions |-> tr.transitions,
                           inputs |-> FrozenSet(inputs), outputs |-> {0, 1},
                           _states |-> None, _hash |-> None])]

---------------------------------------------------------------------------
(* SpecCodec: to_int and from_int on a directly constructed A.             *)

\* The input_order arguments tried: None, or a list of symbols of A.inputs.
Orders(d) == {None} \cup {Some(o) : o \in WordsUpTo(d.inputs, Cardinality(d.inputs) + 1)}

\* A.to_int(input_order), the first call made on A (to_int is a pure
\* function of A and the order: a repeated call returns the same).
to_int_A ==
    \E o \in Orders(A) :
       LET r == to_int(A, o)
       IN /\ last.op = "init"
          /\ last' = [op |-> "to_int", order |-> o, err |-> r.err,
                      ret |-> IF r.err = "none" THEN Some(r.bits) ELSE None]
          /\ UNCHANGED <<A, B, X, tcache, lcache, ntrav, co>>

\* DFA.from_int(n, order) for the integer n the last to_int returned, with the
\* order that call was given (the sorted alphabet when it was given none).
from_int_last ==
    /\ last.op = "to_int" /\ last.err = "none"
    /\ LET inputs == IF last.order = None THEN Some(sorted(A.inputs)) ELSE last.order
           r == from_int(last.ret[1], inputs)
       IN /\ X' = r.dfa
          /\ last' = [op |-> "from_int", order |-> last.order, err |-> r.err,
                      ret |-> last.ret]
    /\ UNCHANGED <<A, B, tcache, lcache, ntrav, co>>

InitCodec ==
    /\ \E n \in 1..MaxStates, S \in InputSets :
         \E t \in Tables(n, S), l \in [0..(n - 1) -> {0, 1}], s \in {0, n - 1} :
            A = DFA(s, l, t, S, {0, 1})
    /\ B = Idle
    /\ InitRest

NextCodec == to_int_A \/ from_int_last

SpecCodec == InitCodec /\ [][NextCodec]_vars

\* d and e give the same label on every word over d.inputs: every pair of
\* states they reach together agrees.
RECURSIVE PairClosure(_, _, _)
PairClosure(d, e, P) ==
    LET Q == P \cup {<<TransitionFn(d, p[1], c), TransitionFn(e, p[2], c)>> :
                       p \in P, c \in d.inputs}
    IN IF Q = P THEN P ELSE PairClosure(d, e, Q)

Equivalent(d, e) ==
    /\ d.inputs = e.inputs
    /\ \A p \in PairClosure(d, e, {<<d.start, e.start>>}) :
          LabelFn(d, p[1]) = LabelFn(e, p[2])

IsListing(o, S) == Len(o) = Cardinality(S) /\ FrozenSet(o) = S

\* C1 as stated: with the default symbol order to_int succeeds on every
\* Boolean automaton over a non-empty alphabet, from_int of the result with
\* sorted(inputs) succeeds, and the decoded automaton is language-equivalent.
CE_C1_RoundTripDefaultOrder ==
    /\ (last.op = "to_int" /\ last.order = None) => last.err = "none"
    /\ (last.op = "from_int" /\ last.order = None) =>
          last.err = "none" /\ Equivalent(A, X[1])

\* C4 as stated: to_int succeeds for every order listing each symbol of
\* inputs exactly once, from_int with the same order is then
\* language-equivalent, and an order that omits a symbol is rejected.
CE_C4_CallerOrder ==
    /\ (last.op = "to_int" /\ last.order # None) =>
          /\ IsListing(last.order[1], A.inputs) => last.err = "none"
          /\ (\E c \in A.inputs : c \notin FrozenSet(last.order[1])) =>
                last.err # "none"
    /\ (last.op = "from_int" /\ last.order # None
          /\ IsListing(last.order[1], A.inputs)) =>
          last.err = "none" /\ Equivalent(A, X[1])

---------------------------------------------------------------------------
(* Properties of states() and find_accepting_word().                       *)

Distinct(seq) == \A i, j \in 1..Len(seq) : i # j => seq[i] # seq[j]

\* u comes no later than v in the order a search trying symbols in ascending
\* order meets words: u is a prefix of v, or smaller at the first difference.
LexLeq(u, v) ==
    \/ Len(u) <= Len(v) /\ \A i \in 1..Len(u) : u[i] = v[i]
    \/ \E k \in 1..Len(u) :
          /\ k <= Len(v)
          /\ u[k] < v[k]
          /\ \A i \in 1..(k - 1) : u[i] = v[i]

\* Words whose run from start enters no state twice and ends accepting.
SimpleAccepting(d) ==
    {w \in WordsUpTo(d.inputs, Cardinality(Reachable(d)) - 1) :
        LET path == TraceFn(d, d.start, w)
        IN Distinct(path) /\ LabelFn(d, path[Len(path)]) = 1}

\* C8: states() returns exactly the set of states reachable from start over
\* inputs, on the first call and on every later one, and the traversal loop
\* runs once per automaton: later calls are served from the cached tuple.
Thm_C8_StatesExactAndCached ==
    /\ ntrav <= 1
    /\ A._states # None => ntrav = 1 /\ Distinct(A._states[1])
    /\ last.op = "states" =>
          /\ last.err = "none"
          /\ last.ret = Reachable(A)
          /\ last.ret = FrozenSet(A._states[1])

\* A later call on an automaton that has unreachable states and more than
\* one reachable state.
Wit_C8_CachedCallWithUnreachable ==
    /\ last.op = "states" /\ last.hit
    /\ Cardinality(last.ret) >= 2
    /\ \E q \in DOMAIN A.label : q \notin last.ret

Thm_C10_SimplePath ==
    (last.op = "find" /\ last.ret # None) =>
        LET w == last.ret[1]
            path == TraceFn(A, A.start, w)
        IN /\ Distinct(path)
           /\ \A i \in 1..Len(path) : (LabelFn(A, path[i]) # 0) <=> (i = Len(path))
           /\ Len(w) <= Cardinality(Reachable(A)) - 1

\* A returned word of the maximal length the bound allows.
Wit_C10_LongestPath ==
    /\ last.op = "find" /\ last.ret # None
    /\ Len(last.ret[1]) = Cardinality(Reachable(A)) - 1
    /\ Len(last.ret[1]) >= 2

---------------------------------------------------------------------------
(* Spec: complement and the binary combinators on A and B, states() on A,  *)
(* hash on A and on the automaton X a combinator returned.  The            *)
(* collaborators of dfa.utils are pure functions by contract: a call of    *)
(* them leaves the memo tables alone.  X holds the one derived automaton   *)
(* of a run: a combinator is applied while there is none yet.              *)

\* Output sets automata are declared with: Boolean, Boolean with a single
\* value, and one that is not Boolean.
OutputSets == {{0, 1}, {1}, {0, 1, 2}}

\* The labellings tried for a declared output set: every one when the set is
\* Boolean, one using the non-Boolean value otherwise.
Labels(n, O) ==
    IF O \subseteq {0, 1} THEN [0..(n - 1) -> O] ELSE {[q \in 0..(n - 1) |-> 2 - q]}

\* The right operand steps through its states cyclically on every symbol.
Cycle(n, S) == [p \in (0..(n - 1)) \X S |-> (p[1] + 1) % n]

\* attr.evolve(self, label=...): every other attribute is copied.
__invert__ ==
    /\ X = None
    /\ IF ~IsBoolean(A)
       THEN /\ X' = X
            /\ last' = [op |-> "invert", err |-> "ValueError", ret |-> None]
       ELSE /\ X' = Some([kind |-> "inv", of |-> "A", start |-> A.start,
                          inputs |-> A.inputs, outputs |-> A.outputs,
                          _states |-> A._states, _hash |-> A._hash])
            /\ last' = [op |-> "invert", err |-> "none", ret |-> None]
    /\ UNCHANGED <<A, B, tcache, lcache, ntrav, co>>

\* A op B: boolean_only tests self, _bin_op tests the alphabets (both raise
\* ValueError) and builds the product.
_bin_op(op) ==
    /\ X = None
    /\ IF ~IsBoolean(A) \/ A.inputs # B.inputs
       THEN /\ X' = X
            /\ last' = [op |-> op, err |-> "ValueError", ret |-> None]
       ELSE /\ X' = Some([kind |-> "prod", op |-> op, left |-> "A", right |-> "B",
                          start |-> <<A.start, B.start>>, inputs |-> A.inputs,
                          outputs |-> A.outputs \cup B.outputs,
                          _states |-> None, _hash |-> None])
            /\ last' = [op |-> op, err |-> "none", ret |-> None]
    /\ UNCHANGED <<A, B, tcache, lcache, ntrav, co>>

__xor__ == _bin_op("xor")
__or__ == _bin_op("or")
__and__ == _bin_op("and")

\* __hash__: the cached value, else to_int(), else (to_int raised ValueError)
\* the hash of the repr of the reindexed dictionary.
__hash__(d) ==
    LET r == to_int(d, None)
    IN IF d._hash # None THEN d._hash[1]
       ELSE IF r.err = "none" THEN [src |-> "to_int", val |-> r.bits]
       ELSE [src |-> "repr", val |-> dfa2dict(d)]

\* hash(A) and hash(X)
hash ==
    \E name \in {"A", "X"} :
       LET d == IF name = "A" THEN A ELSE X[1]
           h == __hash__(d)
       IN /\ name = "X" => X # None
          /\ A' = IF name = "A" THEN [A EXCEPT !._hash = Some(h)] ELSE A
          /\ X' = IF name = "X" THEN Some([d EXCEPT !._hash = Some(h)]) ELSE X
          /\ last' = [op |-> "hash", of |-> name, err |-> "none", ret |-> Some(h)]
          /\ UNCHANGED <<B, tcache, lcache, ntrav, co>>

Init ==
    /\ \E n \in 1..AlgStates, S \in InputSets, O \in OutputSets :
         \E t \in Tables(n, S), l \in Labels(n, O) :
            A = DFA(0, l, t, S, O)
    /\ \E S \in InputSets, O \in OutputSets :
         \E l \in Labels(AlgStates, O) :
            B = DFA(0, l, Cycle(AlgStates, S), S, O)
    /\ InitRest

Next ==
    \/ __invert__
    \/ __xor__
    \/ __or__
    \/ __and__
    \/ hash
    \/ states

Spec == Init /\ [][Next]_vars

BinOps == {"and", "or", "xor"}

\* C2 as stated: on every word over the shared alphabet the label of A & B,
\* A | B, A ^ B is the AND, OR, XOR of the operands' labels and the state of
\* the product is the pair of the operands' states; the label of ~A is the
\* negation of the label of A.
CE_C2_CombinatorAlgebra ==
    (X # None /\ IsBoolean(A) /\ (X[1].kind = "prod" => IsBoolean(B))) =>
       \A w \in WordsUpTo(A.inputs, MaxWordLen) :
          LET x == label(X[1], w, None)
              a == label(A, w, None)
              b == label(B, w, None)
          IN /\ x.err = "none"
             /\ X[1].kind = "inv" => x.ret = Some(PyNot(a.ret[1]))
             /\ X[1].kind = "prod" =>
                   /\ x.ret = Some(ApplyOp(X[1].op, a.ret[1], b.ret[1]))
                   /\ transition(X[1], w, None).ret
                        = Some(<<transition(A, w, None).ret[1],
                                 transition(B, w, None).ret[1]>>)

\* C3 as stated: a binary combinator called with an operand, left or right,
\* whose outputs are not Boolean raises and returns no product.
CE_C3_NotBooleanEitherOperand ==
    (last.op \in BinOps /\ (~IsBoolean(A) \/ ~IsBoolean(B))) =>
       last.err = "ValueError" /\ X = None

\* C6 as stated: hash of a Boolean automaton, however it was obtained and
\* whatever was called before, is its canonical encoding under the default
\* symbol order.
CE_C6_HashIsCanonicalEncoding ==
    (last.op = "hash" /\ IsBoolean(IF last.of = "A" THEN A ELSE X[1])) =>
       LET r == to_int(IF last.of = "A" THEN A ELSE X[1], None)
       IN r.err = "none" => last.ret = Some([src |-> "to_int", val |-> r.bits])

---------------------------------------------------------------------------
(* SpecRun: the generator returned by A.run(start=..., label=...).         *)

\* Most symbols sent to one generator.
RunLen == 3

\* run(start=start, label=flag): the generator object is created; its body
\* has not started.
run ==
    /\ co.state = "absent"
    /\ \E flag \in BOOLEAN, start \in SimStarts(A) :
          co' = [state |-> "created", label |-> flag, start |-> start,
                 cur |-> None, sent |-> <<>>]
    /\ last' = [op |-> "run", err |-> "none", ret |-> None]
    /\ UNCHANGED <<A, B, X, tcache, lcache, ntrav>>

\* labeler(state) for a generator that got past the first line of the body.
labeler(c, state) == IF c.label THEN LabelFn(A, state) ELSE state

\* next(co) on the new generator: the body runs to the first yield; with
\* label set the first line reads self.dfa, an attribute DFA does not have.
next ==
    /\ co.state = "created"
    /\ IF co.label
       THEN /\ co' = [co EXCEPT !.state = "finished"]
            /\ last' = [op |-> "next", err |-> "AttributeError", ret |-> None]
            /\ lcache' = lcache
       ELSE LET state == IF co.start = None THEN A.start ELSE co.start[1]
            IN /\ co' = [co EXCEPT !.state = "suspended", !.cur = Some(state)]
               /\ last' = [op |-> "next", err |-> "none",
                           ret |-> Some(labeler(co, state))]
               /\ lcache' = lcache
    /\ UNCHANGED <<A, B, X, tcache, ntrav>>

\* co.send(letter) on the suspended generator: one pass of the while loop.
send ==
    /\ co.state = "suspended"
    /\ Len(co.sent) < RunLen
    /\ \E letter \in Letters :
          LET t == transition(A, <<letter>>, co.cur)
          IN /\ tcache' = tcache \cup t.tkeys
             /\ IF t.err # "none"
                THEN /\ co' = [co EXCEPT !.state = "finished",
                                         !.sent = Append(co.sent, letter)]
                     /\ last' = [op |-> "send", err |-> t.err, ret |-> None]
                     /\ lcache' = lcache
                ELSE /\ co' = [co EXCEPT !.cur = t.ret,
                                         !.sent = Append(co.sent, letter)]
                     /\ last' = [op |-> "send", err |-> "none",
                                 ret |-> Some(labeler(co, t.ret[1]))]
                     /\ lcache' = IF co.label THEN lcache \cup {t.ret[1]} ELSE lcache
    /\ UNCHANGED <<A, B, X, ntrav>>

InitRun ==
    /\ \E n \in 1..SimStates, S \in InputSets :
         \E t \in Tables(n, S) :
            A = DFA(0, [q \in 0..(n - 1) |-> q % 2], t, S, {0, 1})
    /\ B = Idle
    /\ InitRest

NextRun == run \/ next \/ send

SpecRun == InitRun /\ [][NextRun]_vars

\* C5 as stated: for either value of the label flag the first resumption
\* yields the start state (its label when the flag is set), and the k-th
\* resumption after it yields the state reached from the start state by the
\* k symbols sent so far (or its label); the generator stays suspended.
CE_C5_RunProtocol ==
    (last.op \in {"next", "send"} /\ FrozenSet(co.sent) \subseteq A.inputs) =>
       LET s0 == IF co.start = None THEN A.start ELSE co.start[1]
           path == TraceFn(A, s0, co.sent)
           reached == path[Len(path)]
       IN /\ last.err = "none"
          /\ last.ret = Some(IF co.label THEN LabelFn(A, reached) ELSE reached)
          /\ co.state = "suspended"

====
